---- MODULE Spec2Model ----
(***************************************************************************)
(* Model of the two batch pipelines of the repository:                     *)
(*   rates_test/scripts/rates.py   RatesProcessor  (as-of join, rule merge, *)
(*                                 price conversion, window filter)         *)
(*   stdev_test/scripts/stdev.py   StdDevProcessor (per-security rolling    *)
(*                                 stdev gated by hourly contiguity)        *)
(* Timestamps are whole seconds.  Floating point columns are modelled       *)
(* exactly: prices, factors and rates as fractions <<num, den>>, quotes as  *)
(* non-negative integers.  pandas' missing values are NaT (timestamps),     *)
(* NaN (quotes, stdevs) and NaNF (fractions).                               *)
(***************************************************************************)
EXTENDS Integers, Sequences, FiniteSets, TLC

VARIABLES
    price_file,   \* rows of the price file, in file order
    spot_file,    \* rows of the spot-rate file, in file order
    ccy_file,     \* rows of the conversion-rule file, in file order
    rates_pc,     \* "idle" | "done" | "error": RatesProcessor.process not run / returned / raised
    rates_args,   \* [start, end] given to RatesProcessor.process
    asof,         \* rates.py local `merged` after merge_asof (line 73)
    with_rules,   \* rates.py local `merged` after the rule merge (line 76)
    converted,    \* rates.py local `merged` after new_price is set (line 95)
    merged,       \* the table RatesProcessor.process returns (line 109)
    stdev_file,   \* rows of the snapshot file, in file order
    odd_rows,     \* how many rows of stdev_file are off the main security's hourly series
    stdev_pc,     \* "idle" | "done": StdDevProcessor.process not run / returned
    stdev_args,   \* [start, end, add_gap_flag] given to StdDevProcessor.process
    grouped,      \* stdev.py local `result` after pd.concat (line 89)
    result        \* the table StdDevProcessor.process returns (line 99)

rates_vars == <<price_file, spot_file, ccy_file, rates_pc, rates_args,
                asof, with_rules, converted, merged>>

stdev_vars == <<stdev_file, odd_rows, stdev_pc, stdev_args, grouped, result>>

vars == <<rates_vars, stdev_vars>>

----------------------------------------------------------------------------
(* Bounds of the model *)

\* total number of rows over the three input files of the rates pipeline
MaxRows == 3

\* number of rows of the snapshot file
MaxSnaps == 21

\* number of rows of the snapshot file that are off the main hourly series
MaxOdd == 1

\* number of rows of the snapshot file in the row-15 perturbation scenario
MaxGateRows == 36

----------------------------------------------------------------------------
(* Values *)

\* one hour, in seconds: pd.Timedelta('1h')
Hour == 3600

\* tolerance=pd.Timedelta('1h') of merge_asof
Tolerance == 3600

\* pandas' missing timestamp
NaT == -1

\* a timestamp string of a file that pd.to_datetime cannot parse
Malformed == -2

\* Python's None for an optional argument
None == -1

\* missing id (an id column of a row that has no match)
NoId == 0

\* fractions <<num, den>>; IEEE specials: NaNF = 0/0, InfF = 1/0
NaNF == <<0, 0>>
InfF == <<1, 0>>

RECURSIVE GCD(_, _)
GCD(a, b) == IF b = 0 THEN a ELSE GCD(b, a % b)

Frac(n, d) == LET g == GCD(n, d) IN <<n \div g, d \div g>>

IsNaNF(x) == x = NaNF

\* float division a / b (non-negative operands): x/0 = inf, 0/0 = nan
FDiv(a, b) ==
    IF IsNaNF(a) \/ IsNaNF(b) THEN NaNF
    ELSE IF a = InfF /\ b = InfF THEN NaNF
    ELSE IF a = InfF THEN InfF
    ELSE IF b = InfF THEN <<0, 1>>
    ELSE IF b[1] = 0 THEN (IF a[1] = 0 THEN NaNF ELSE InfF)
    ELSE Frac(a[1] * b[2], a[2] * b[1])

\* float addition a + b (non-negative operands)
FAdd(a, b) ==
    IF IsNaNF(a) \/ IsNaNF(b) THEN NaNF
    ELSE IF a = InfF \/ b = InfF THEN InfF
    ELSE Frac(a[1] * b[2] + b[1] * a[2], a[2] * b[2])

\* the ccy_pair values, in their sort order
CcyPairs == <<"EURUSD", "GBPUSD">>

PairSet == {CcyPairs[i] : i \in 1..Len(CcyPairs)}

PairRank(p) == CHOOSE i \in 1..Len(CcyPairs) : CcyPairs[i] = p

\* timestamps of the rates files: both sides of the 1 hour tolerance
RatesTimes == {0, 1, Hour, Hour + 1}

\* the price column: the n-th row of the file carries the n-th of these, in turn
Prices == <<(<<100, 1>>), (<<7, 1>>)>>

PriceOf(n) == Prices[((n - 1) % Len(Prices)) + 1]

SpotRates == {<<3, 2>>}

Factors == {<<2, 1>>, <<0, 1>>}

----------------------------------------------------------------------------
(* RatesProcessor._load *)

\* pd.to_datetime(..., errors='coerce'): an unparsable value becomes NaT
to_datetime(raw) == IF raw >= 0 THEN raw ELSE NaT

load(file) == [i \in 1..Len(file) |->
                 [file[i] EXCEPT !.timestamp = to_datetime(file[i].timestamp)]]

----------------------------------------------------------------------------
(* sort_values(['timestamp', 'ccy_pair'], kind='mergesort') *)

\* strict order of the sort keys; NaT sorts last (na_position='last')
KeyLess(a, b) ==
    IF a.timestamp = NaT THEN FALSE
    ELSE IF b.timestamp = NaT THEN TRUE
    ELSE \/ a.timestamp < b.timestamp
         \/ a.timestamp = b.timestamp /\ PairRank(a.ccy_pair) < PairRank(b.ccy_pair)

\* r put behind the first p rows of sorted
InsertAt(sorted, r, p) ==
    IF p = Len(sorted) THEN Append(sorted, r)
    ELSE SubSeq(sorted, 1, p) \o <<r>> \o SubSeq(sorted, p + 1, Len(sorted))

\* where r goes among sorted[1..n]: behind every row that is not greater,
\* which keeps ties in input order (a stable sort)
RECURSIVE KeyPos(_, _, _)
KeyPos(sorted, r, n) ==
    IF n > 0 /\ KeyLess(r, sorted[n]) THEN KeyPos(sorted, r, n - 1) ELSE n

InsertByKey(sorted, r) ==
    IF sorted = <<>> THEN <<r>>
    ELSE InsertAt(sorted, r, KeyPos(sorted, r, Len(sorted)))

RECURSIVE SortedByKey(_, _)
SortedByKey(df, n) ==
    IF n = 0 THEN <<>>
    ELSE InsertByKey(SortedByKey(df, n - 1), df[n])

sort_values(df) == SortedByKey(df, Len(df))

----------------------------------------------------------------------------
(* pd.merge_asof(price, spot, by='ccy_pair', on='timestamp',               *)
(*               direction='backward', tolerance=1h)                       *)

HasNullKey(df) == \E i \in 1..Len(df) : df[i].timestamp = NaT

\* the right rows admitted for one left row:
\* while right_pos < right_size and right[right_pos] <= left: remember it per pair
RECURSIVE Advance(_, _, _, _)
Advance(right, lts, rpos, table) ==
    IF rpos <= Len(right) /\ right[rpos].timestamp <= lts
    THEN Advance(right, lts, rpos + 1,
                 [table EXCEPT ![right[rpos].ccy_pair] = rpos])
    ELSE [pos |-> rpos, table |-> table]

\* a tolerance that excludes the boundary
WithinToleranceStrict(lts, rts) == lts - rts < Tolerance

\* diff > tolerance drops the match
WithinTolerance(lts, rts) == lts - rts <= Tolerance

\* the two-pointer walk; out[k] is the position in right matched to left[k], 0 for none
RECURSIVE AsofWalk(_, _, _, _, _, _)
AsofWalk(left, right, lpos, rpos, table, out) ==
    IF lpos > Len(left) THEN out
    ELSE LET adv   == Advance(right, left[lpos].timestamp, rpos, table)
             found == adv.table[left[lpos].ccy_pair]
             match == IF found # 0
                         /\ ~WithinTolerance(left[lpos].timestamp, right[found].timestamp)
                      THEN 0 ELSE found
         IN AsofWalk(left, right, lpos + 1, adv.pos, adv.table, Append(out, match))

AsofIndexer(left, right) ==
    AsofWalk(left, right, 1, 1, [p \in PairSet |-> 0], <<>>)

merge_asof(left, right) ==
    LET ix == AsofIndexer(left, right)
    IN [k \in 1..Len(left) |->
          [price_id      |-> left[k].price_id,
           timestamp     |-> left[k].timestamp,
           ccy_pair      |-> left[k].ccy_pair,
           price         |-> left[k].price,
           spot_id       |-> IF ix[k] = 0 THEN NoId ELSE right[ix[k]].spot_id,
           spot_mid_rate |-> IF ix[k] = 0 THEN NaNF ELSE right[ix[k]].spot_mid_rate]]

----------------------------------------------------------------------------
(* merged.merge(ccy, on='ccy_pair', how='left') *)

WithRule(row, convert, factor) ==
    [price_id          |-> row.price_id,
     timestamp         |-> row.timestamp,
     ccy_pair          |-> row.ccy_pair,
     price             |-> row.price,
     spot_id           |-> row.spot_id,
     spot_mid_rate     |-> row.spot_mid_rate,
     convert_price     |-> convert,
     conversion_factor |-> factor]

\* the rows one left row gives: one per rule of its pair, in rule order
RECURSIVE RuleRows(_, _, _)
RuleRows(row, ccy, k) ==
    IF k > Len(ccy) THEN <<>>
    ELSE (IF ccy[k].ccy_pair = row.ccy_pair
          THEN <<WithRule(row, ccy[k].convert_price, ccy[k].conversion_factor)>>
          ELSE <<>>) \o RuleRows(row, ccy, k + 1)

\* an inner join: rows without a rule are dropped
RECURSIVE merge_inner(_, _)
merge_inner(left, ccy) ==
    IF left = <<>> THEN <<>>
    ELSE RuleRows(left[1], ccy, 1) \o merge_inner(Tail(left), ccy)

RECURSIVE merge_left(_, _)
merge_left(left, ccy) ==
    IF left = <<>> THEN <<>>
    ELSE LET row  == left[1]
             hits == RuleRows(row, ccy, 1)
         IN (IF hits = <<>> THEN <<WithRule(row, "NaN", NaNF)>> ELSE hits)
            \o merge_left(Tail(left), ccy)

\* merged['convert_price'].astype(bool): bool(nan) is True
astype_bool(v) == IF v = "False" THEN "False" ELSE "True"

----------------------------------------------------------------------------
(* new_price *)

\* the two masks swapped: converts the rows that must not be converted
new_price_swapped(row) ==
    LET convert  == astype_bool(row.convert_price)
        has_spot == ~IsNaNF(row.spot_mid_rate)
    IN IF has_spot /\ convert # "True"
       THEN FAdd(FDiv(row.price, row.conversion_factor), row.spot_mid_rate)
       ELSE IF has_spot THEN row.price
       ELSE NaNF

new_price(row) ==
    LET convert       == astype_bool(row.convert_price)
        has_spot      == ~IsNaNF(row.spot_mid_rate)
        needs_convert == has_spot /\ convert = "True"
        no_convert    == has_spot /\ convert # "True"
    IN IF needs_convert
       THEN FAdd(FDiv(row.price, row.conversion_factor), row.spot_mid_rate)
       ELSE IF no_convert THEN row.price
       ELSE NaNF

Convert(df) ==
    [k \in 1..Len(df) |->
       [price_id          |-> df[k].price_id,
        timestamp         |-> df[k].timestamp,
        ccy_pair          |-> df[k].ccy_pair,
        price             |-> df[k].price,
        spot_id           |-> df[k].spot_id,
        spot_mid_rate     |-> df[k].spot_mid_rate,
        convert_price     |-> astype_bool(df[k].convert_price),
        conversion_factor |-> df[k].conversion_factor,
        new_price         |-> new_price(df[k])]]

----------------------------------------------------------------------------
(* window filter *)

\* a lower bound that excludes the boundary
GeStartStrict(t, start) == t # NaT /\ t > start

\* series >= bound, series <= bound: a comparison with NaT is False
GeStart(t, start) == t # NaT /\ t >= start
LeEnd(t, end) == t # NaT /\ t <= end

RECURSIVE Select(_, _)
Select(df, keep) ==
    IF df = <<>> THEN <<>>
    ELSE (IF keep[1] THEN <<df[1]>> ELSE <<>>) \o Select(Tail(df), Tail(keep))

FilterFrom(df, start) ==
    Select(df, [k \in 1..Len(df) |-> GeStart(df[k].timestamp, start)])

FilterTo(df, end) ==
    Select(df, [k \in 1..Len(df) |-> LeEnd(df[k].timestamp, end)])

\* if start: ...; if end: ...
window_filter(df, start, end) ==
    LET a == IF start # None THEN FilterFrom(df, start) ELSE df
    IN IF end # None THEN FilterTo(a, end) ELSE a

----------------------------------------------------------------------------
(* The rates pipeline *)

\* the n-th row of the price file
PriceRow(n, t, pair) ==
    [price_id |-> n, timestamp |-> t, ccy_pair |-> pair, price |-> PriceOf(n)]

SpotRows == [spot_id : {0}, timestamp : RatesTimes \cup {Malformed},
             ccy_pair : PairSet, spot_mid_rate : SpotRates]

RuleRowsIn == [ccy_pair : PairSet, convert_price : {"True", "False"},
               conversion_factor : Factors]

\* one run executes one of the two scripts: the other one's files stay untouched
RatesIdle ==
    price_file = <<>> /\ spot_file = <<>> /\ ccy_file = <<>> /\ rates_pc = "idle"

StdevIdle == stdev_file = <<>> /\ stdev_pc = "idle"

InputRows == Len(price_file) + Len(spot_file) + Len(ccy_file)

RatesInit ==
    /\ price_file = <<>>
    /\ spot_file = <<>>
    /\ ccy_file = <<>>
    /\ rates_pc = "idle"
    /\ rates_args = [start |-> None, end |-> None]
    /\ asof = <<>>
    /\ with_rules = <<>>
    /\ converted = <<>>
    /\ merged = <<>>

\* one more row in the price file (its id is its position in the file)
WritePrice ==
    /\ StdevIdle
    /\ rates_pc = "idle"
    /\ InputRows < MaxRows
    /\ \E t \in RatesTimes \cup {Malformed}, pair \in PairSet :
         price_file' = Append(price_file, PriceRow(Len(price_file) + 1, t, pair))
    /\ UNCHANGED <<spot_file, ccy_file, rates_pc, rates_args,
                   asof, with_rules, converted, merged>>
    /\ UNCHANGED stdev_vars

WriteSpot ==
    /\ StdevIdle
    /\ rates_pc = "idle"
    /\ InputRows < MaxRows
    /\ \E r \in SpotRows :
         spot_file' = Append(spot_file, [r EXCEPT !.spot_id = Len(spot_file) + 1])
    /\ UNCHANGED <<price_file, ccy_file, rates_pc, rates_args,
                   asof, with_rules, converted, merged>>
    /\ UNCHANGED stdev_vars

WriteRule ==
    /\ StdevIdle
    /\ rates_pc = "idle"
    /\ InputRows < MaxRows
    /\ \E r \in RuleRowsIn : ccy_file' = Append(ccy_file, r)
    /\ UNCHANGED <<price_file, spot_file, rates_pc, rates_args,
                   asof, with_rules, converted, merged>>
    /\ UNCHANGED stdev_vars

StartArgs == {None, 1}
EndArgs == {None, Hour}

\* RatesProcessor.process(start, end)
RatesProcess ==
    /\ StdevIdle
    /\ rates_pc = "idle"
    /\ \E start \in StartArgs, end \in EndArgs :
         LET price == sort_values(load(price_file))
             spot  == sort_values(load(spot_file))
         IN /\ rates_args' = [start |-> start, end |-> end]
            /\ IF HasNullKey(price) \/ HasNullKey(spot)
               THEN \* merge_asof: ValueError("Merge keys contain null values")
                    /\ rates_pc' = "error"
                    /\ UNCHANGED <<asof, with_rules, converted, merged>>
               ELSE /\ rates_pc' = "done"
                    /\ asof' = merge_asof(price, spot)
                    /\ with_rules' = merge_left(asof', ccy_file)
                    /\ converted' = Convert(with_rules')
                    /\ merged' = window_filter(converted', start, end)
    /\ UNCHANGED <<price_file, spot_file, ccy_file>>
    /\ UNCHANGED stdev_vars

----------------------------------------------------------------------------
(* StdDevProcessor._load *)

load_snaps(file) == [i \in 1..Len(file) |->
                       [file[i] EXCEPT !.snap_time = to_datetime(file[i].snap_time)]]

----------------------------------------------------------------------------
(* StdDevProcessor._compute_group_stdev *)

\* pandas' missing float
NaN == -1

\* rolling(20, min_periods=20)
Window == 20

\* rolling(19, min_periods=19)
GapWindow == 19

\* the security_id values, in their sort order
Securities == <<"A", "B">>

SecSet == {Securities[i] : i \in 1..Len(Securities)}

SecRank(s) == CHOOSE i \in 1..Len(Securities) : Securities[i] = s

Fields == {"bid", "mid", "ask"}

\* order of sort_values("snap_time"); NaT sorts last
SnapLess(a, b) ==
    a.snap_time # NaT /\ (b.snap_time = NaT \/ a.snap_time < b.snap_time)

RECURSIVE SnapPos(_, _, _)
SnapPos(sorted, r, n) ==
    IF n > 0 /\ SnapLess(r, sorted[n]) THEN SnapPos(sorted, r, n - 1) ELSE n

InsertBySnap(sorted, r) ==
    IF sorted = <<>> THEN <<r>>
    ELSE InsertAt(sorted, r, SnapPos(sorted, r, Len(sorted)))

RECURSIVE SortedBySnap(_, _)
SortedBySnap(df, n) ==
    IF n = 0 THEN <<>>
    ELSE InsertBySnap(SortedBySnap(df, n - 1), df[n])

sort_by_snap(df) == SortedBySnap(df, Len(df))

\* a gap indicator that accepts any step of an hour or more
one_hour_gap_at_least(grp, i) ==
    IF i > 1 /\ grp[i].snap_time # NaT /\ grp[i - 1].snap_time # NaT
             /\ grp[i].snap_time - grp[i - 1].snap_time >= Hour
    THEN 1 ELSE 0

\* grp['snap_time'].diff().eq(pd.Timedelta('1h')).astype(int)
one_hour_gap(grp, i) ==
    IF i > 1 /\ grp[i].snap_time # NaT /\ grp[i - 1].snap_time # NaT
             /\ grp[i].snap_time - grp[i - 1].snap_time = Hour
    THEN 1 ELSE 0

RECURSIVE SumGaps(_, _, _)
SumGaps(grp, lo, hi) ==
    IF lo > hi THEN 0 ELSE one_hour_gap(grp, hi) + SumGaps(grp, lo, hi - 1)

\* a contiguity test over 18 gaps only
contiguous_18(grp, i) ==
    i >= GapWindow - 1 /\ SumGaps(grp, i - GapWindow + 2, i) = GapWindow - 1

\* one_hour_gap.rolling(19, min_periods=19).sum().eq(19)
contiguous_20(grp, i) ==
    i >= GapWindow /\ SumGaps(grp, i - GapWindow + 1, i) = GapWindow

\* sum and sum of squares of grp[lo..hi][col]
RECURSIVE Moments(_, _, _, _)
Moments(grp, col, lo, hi) ==
    IF lo > hi THEN <<0, 0>>
    ELSE LET m == Moments(grp, col, lo, hi - 1)
             x == grp[hi][col]
         IN <<m[1] + x, m[2] + x * x>>

\* grp[col].rolling(20, min_periods=20).std(): NaN unless the 20 rows ending at i
\* all hold a value.  The sample stdev s is given exactly by the integer
\* 20 * 19 * s^2 = 20 * sum(x^2) - sum(x)^2.
roll_std(grp, col, i) ==
    IF i >= Window /\ \A k \in (i - Window + 1)..i : grp[k][col] # NaN
    THEN LET m == Moments(grp, col, i - Window + 1, i)
         IN Window * m[2] - m[1] * m[1]
    ELSE NaN

\* roll_std.where(contiguous_20)
masked_std(contiguous, grp, col, i) ==
    IF contiguous THEN roll_std(grp, col, i) ELSE NaN

StdevRow(grp, i) ==
    LET contiguous == contiguous_20(grp, i)
    IN [security_id |-> grp[i].security_id,
        snap_time   |-> grp[i].snap_time,
        bid         |-> grp[i].bid,
        mid         |-> grp[i].mid,
        ask         |-> grp[i].ask,
        bid_stdev   |-> masked_std(contiguous, grp, "bid", i),
        mid_stdev   |-> masked_std(contiguous, grp, "mid", i),
        ask_stdev   |-> masked_std(contiguous, grp, "ask", i)]

\* (~contiguous_20) & out[['bid_stdev','mid_stdev','ask_stdev']].notna().any(axis=1)
gap_blocked(grp, out, i) ==
    /\ ~contiguous_20(grp, i)
    /\ \/ out[i].bid_stdev # NaN
       \/ out[i].mid_stdev # NaN
       \/ out[i].ask_stdev # NaN

WithFlag(row, flag) ==
    [security_id |-> row.security_id,
     snap_time   |-> row.snap_time,
     bid         |-> row.bid,
     mid         |-> row.mid,
     ask         |-> row.ask,
     bid_stdev   |-> row.bid_stdev,
     mid_stdev   |-> row.mid_stdev,
     ask_stdev   |-> row.ask_stdev,
     gap_blocked |-> flag]

compute_group_stdev(group, add_gap_flag) ==
    LET grp == sort_by_snap(group)
        out == [i \in 1..Len(grp) |-> StdevRow(grp, i)]
    IN IF add_gap_flag
       THEN [i \in 1..Len(grp) |-> WithFlag(out[i], gap_blocked(grp, out, i))]
       ELSE out

----------------------------------------------------------------------------
(* StdDevProcessor.process *)

\* order of sort_values(['security_id', 'snap_time'])
SecSnapLess(a, b) ==
    IF a.security_id = b.security_id THEN SnapLess(a, b)
    ELSE SecRank(a.security_id) < SecRank(b.security_id)

RECURSIVE SecSnapPos(_, _, _)
SecSnapPos(sorted, r, n) ==
    IF n > 0 /\ SecSnapLess(r, sorted[n]) THEN SecSnapPos(sorted, r, n - 1) ELSE n

InsertBySecSnap(sorted, r) ==
    IF sorted = <<>> THEN <<r>>
    ELSE InsertAt(sorted, r, SecSnapPos(sorted, r, Len(sorted)))

RECURSIVE SortedBySecSnap(_, _)
SortedBySecSnap(df, n) ==
    IF n = 0 THEN <<>>
    ELSE InsertBySecSnap(SortedBySecSnap(df, n - 1), df[n])

sort_by_sec_snap(df) == SortedBySecSnap(df, Len(df))

RowsOf(df, sec) == SelectSeq(df, LAMBDA r : r.security_id = sec)

\* no grouping: the whole table is rolled over as one group
concat_ungrouped(df, k, add_gap_flag) == compute_group_stdev(df, add_gap_flag)

\* for sec_id, grp in df.groupby('security_id'): one group per security present,
\* in key order; pd.concat(all_results)
RECURSIVE concat_groups(_, _, _)
concat_groups(df, k, add_gap_flag) ==
    IF k > Len(Securities) THEN <<>>
    ELSE compute_group_stdev(RowsOf(df, Securities[k]), add_gap_flag)
         \o concat_groups(df, k + 1, add_gap_flag)

rolling_result(file, add_gap_flag) ==
    concat_groups(sort_by_sec_snap(load_snaps(file)), 1, add_gap_flag)

\* result[(result['snap_time'] >= start) & (result['snap_time'] <= end)]
snap_filter(df, start, end) ==
    Select(df, [k \in 1..Len(df) |->
                  GeStart(df[k].snap_time, start) /\ LeEnd(df[k].snap_time, end)])

----------------------------------------------------------------------------
(* The stdev pipeline *)

\* the quotes of the n-th row written to the snapshot file
QuoteOf(n) == [bid |-> (n * n) % 7, mid |-> ((3 * n) % 5) + 1, ask |-> 9 - (n % 4)]

\* the security with the long hourly series; the other one has a few rows
Main == Securities[1]

\* the snap_time of the first row of a security: the other security's
\* snapshots begin one hour before the main one's
FirstTime(sec) == IF sec = Main THEN Hour ELSE 0

\* the latest snap_time among the first n rows of the file that are of sec
\* (NaT when there is none)
RECURSIVE LatestSnap(_, _)
LatestSnap(sec, n) ==
    IF n = 0 THEN NaT
    ELSE LET m == LatestSnap(sec, n - 1)
         IN IF stdev_file[n].security_id = sec /\ stdev_file[n].snap_time > m
            THEN stdev_file[n].snap_time ELSE m

HasSnap(sec) == LatestSnap(sec, Len(stdev_file)) # NaT

\* the next hourly slot after the latest row of sec
NextSlot(sec) ==
    IF ~HasSnap(sec) THEN FirstTime(sec)
    ELSE (LatestSnap(sec, Len(stdev_file)) \div Hour) * Hour + Hour

\* a row of the main security on its hourly slot is regular; any other row
\* counts as off the main series
Cost(sec) == IF sec = Main THEN 0 ELSE 1

SnapRow(sec, t, q) ==
    [security_id |-> sec, snap_time |-> t, bid |-> q.bid, mid |-> q.mid, ask |-> q.ask]

StdevInit ==
    /\ stdev_file = <<>>
    /\ odd_rows = 0
    /\ stdev_pc = "idle"
    /\ stdev_args = [start |-> 0, end |-> 0, add_gap_flag |-> FALSE]
    /\ grouped = <<>>
    /\ result = <<>>

Appended(row, cost, limit) ==
    /\ RatesIdle
    /\ Len(stdev_file) < limit
    /\ odd_rows + cost <= MaxOdd
    /\ stdev_file' = Append(stdev_file, row)
    /\ odd_rows' = odd_rows + cost
    /\ UNCHANGED <<stdev_pc, stdev_args, grouped, result>>
    /\ UNCHANGED rates_vars

Written(row, cost) == Appended(row, cost, MaxSnaps)

\* a snapshot one hour after the security's latest one
WriteHourly ==
    /\ stdev_pc = "idle"
    /\ \E sec \in SecSet :
        Written(SnapRow(sec, NextSlot(sec), QuoteOf(Len(stdev_file))), Cost(sec))

\* a snapshot after a missing time step
WriteAfterGap ==
    /\ stdev_pc = "idle"
    /\ HasSnap(Main)
    /\ Written(SnapRow(Main, NextSlot(Main) + Hour, QuoteOf(Len(stdev_file))), 1)

\* a snapshot taken d seconds late
Perturbations == {1, Hour \div 2}

\* how late the n-th row of the file is when it is late
LateBy(n) == IF n % 2 = 0 THEN 1 ELSE Hour \div 2

WritePerturbed ==
    /\ stdev_pc = "idle"
    /\ Written(SnapRow(Main, NextSlot(Main) + LateBy(Len(stdev_file)),
                        QuoteOf(Len(stdev_file))), 1)

\* the quote the n-th row of the file lacks when it lacks one
MissingOf(n) == <<"bid", "mid", "ask">>[(n % 3) + 1]

\* a snapshot with one quote missing
WriteMissingQuote ==
    /\ stdev_pc = "idle"
    /\ Written([SnapRow(Main, NextSlot(Main), QuoteOf(Len(stdev_file)))
                    EXCEPT ![MissingOf(Len(stdev_file))] = NaN], 1)

\* a snapshot whose snap_time cannot be parsed
WriteMalformed ==
    /\ stdev_pc = "idle"
    /\ Written(SnapRow(Main, Malformed, QuoteOf(Len(stdev_file))), 1)

\* a snapshot written out of order: one hour before the security's earliest one
WriteEarlier ==
    /\ stdev_pc = "idle"
    /\ \E k \in 1..Len(stdev_file) :
         stdev_file[k].security_id = Main /\ stdev_file[k].snap_time = Hour
    /\ \A k \in 1..Len(stdev_file) :
         stdev_file[k].security_id = Main =>
             stdev_file[k].snap_time \notin 0..(Hour - 1)
    /\ Written(SnapRow(Main, 0, QuoteOf(Len(stdev_file))), 1)

\* start, end: rows lie on both bounds and on either side of them
StdevWindows == {[start |-> 2 * Hour, end |-> 20 * Hour]}

\* StdDevProcessor.process(start, end, add_gap_flag)
StdevProcess ==
    /\ RatesIdle
    /\ stdev_pc = "idle"
    /\ \E w \in StdevWindows, flag \in BOOLEAN :
         /\ stdev_args' = [start |-> w.start, end |-> w.end, add_gap_flag |-> flag]
         /\ grouped' = rolling_result(stdev_file, flag)
         /\ result' = snap_filter(grouped', w.start, w.end)
    /\ stdev_pc' = "done"
    /\ UNCHANGED <<stdev_file, odd_rows>>
    /\ UNCHANGED rates_vars

----------------------------------------------------------------------------
(* Properties of the rates pipeline *)

\* the spot rows that qualify for a price row p: same pair, not later than p,
\* at most one hour earlier
Qualifying(p) ==
    {j \in 1..Len(spot_file) :
        /\ spot_file[j].ccy_pair = p.ccy_pair
        /\ spot_file[j].timestamp <= p.timestamp
        /\ p.timestamp - spot_file[j].timestamp <= Hour}

\* row r of a joined table carries the price row it came from and the spot
\* fields of the latest qualifying spot row, or null spot fields when none qualifies
AsofRowOk(r) ==
    /\ r.price_id \in 1..Len(price_file)
    /\ LET p == price_file[r.price_id]
           Q == Qualifying(p)
       IN /\ r.timestamp = p.timestamp
          /\ r.ccy_pair = p.ccy_pair
          /\ r.price = p.price
          /\ IF Q = {}
             THEN r.spot_id = NoId /\ r.spot_mid_rate = NaNF
             ELSE /\ r.spot_id \in Q
                  /\ \A j \in Q :
                       spot_file[j].timestamp <= spot_file[r.spot_id].timestamp
                  /\ r.spot_mid_rate = spot_file[r.spot_id].spot_mid_rate

\* C1: after RatesProcessor.process every price row is joined to the spot row
\* of its pair with the greatest timestamp not later than its own, provided
\* that spot row is at most 1 hour earlier (1 hour exactly still matches);
\* when no spot row of the pair qualifies the spot fields are null.
C1_AsofLatestWithinTolerance ==
    rates_pc = "done" =>
        /\ \A i \in 1..Len(price_file) : \E k \in 1..Len(asof) : asof[k].price_id = i
        /\ \A k \in 1..Len(asof) : AsofRowOk(asof[k])
        /\ \A k \in 1..Len(converted) : AsofRowOk(converted[k])

\* a price row matched to a spot exactly one hour earlier, while a spot of the
\* same pair one second further back exists and is not the one matched
C1_Witness ==
    /\ rates_pc = "done"
    /\ \E k \in 1..Len(asof) : \E j \in 1..Len(spot_file) :
         /\ asof[k].spot_id # NoId
         /\ asof[k].timestamp - spot_file[asof[k].spot_id].timestamp = Hour
         /\ spot_file[j].ccy_pair = asof[k].ccy_pair
         /\ asof[k].timestamp - spot_file[j].timestamp = Hour + 1

\* new_price = price / conversion_factor + spot_mid_rate, stated on the
\* fractions by cross multiplication (x / 0 is inf, a missing factor gives NaN)
IsConvertedPrice(r) ==
    LET p == r.price
        c == r.conversion_factor
        m == r.spot_mid_rate
        v == r.new_price
    IN IF c = NaNF THEN v = NaNF
       ELSE IF c[1] = 0 THEN v = InfF
       ELSE /\ v[2] > 0
            /\ GCD(v[1], v[2]) = 1
            /\ v[1] * (p[2] * c[1] * m[2])
                 = v[2] * (p[1] * c[2] * m[2] + m[1] * p[2] * c[1])

NewPriceOk(r) ==
    /\ r.spot_id = NoId => r.new_price = NaNF
    /\ r.spot_id # NoId /\ r.convert_price = "False" => r.new_price = r.price
    /\ r.spot_id # NoId /\ r.convert_price = "True" => IsConvertedPrice(r)
    /\ (/\ r.spot_id # NoId
        /\ r.convert_price = "True"
        /\ r.price = <<100, 1>>
        /\ r.conversion_factor = <<2, 1>>
        /\ r.spot_mid_rate = <<3, 2>>) => r.new_price = <<103, 2>>

OwnFields(r) ==
    <<r.spot_id = NoId, r.convert_price, r.price, r.conversion_factor, r.spot_mid_rate>>

\* C2: in every output row new_price is null without a spot match, the price
\* itself with a spot match and convert_price false, and
\* price / conversion_factor + spot_mid_rate with a spot match and
\* convert_price true (100 / 2 + 1.5 = 51.5); rows with equal own fields have
\* equal new_price.
C2_NewPriceByRow ==
    rates_pc = "done" =>
        /\ \A k \in 1..Len(converted) : NewPriceOk(converted[k])
        /\ \A k \in 1..Len(merged) : NewPriceOk(merged[k])
        /\ \A k, l \in 1..Len(converted) :
             OwnFields(converted[k]) = OwnFields(converted[l])
                 => converted[k].new_price = converted[l].new_price

\* the example row: price 100, factor 2, spot 1.5, converted to 51.5
C2_Witness ==
    /\ rates_pc = "done"
    /\ \E k \in 1..Len(merged) :
         /\ merged[k].spot_id # NoId
         /\ merged[k].convert_price = "True"
         /\ merged[k].conversion_factor = <<2, 1>>
         /\ merged[k].new_price = <<103, 2>>

\* the timestamp t lies inside the bounds that are given
InWindow(t, start, end) ==
    /\ start # None => (t # NaT /\ start <= t)
    /\ end # None => (t # NaT /\ t <= end)

\* out is exactly the rows of in whose timestamp (times[k] for in[k]) lies
\* inside the bounds, in the order of in and unchanged
IsWindowOf(out, in, times, start, end) ==
    LET Kept == {k \in 1..Len(in) : InWindow(times[k], start, end)}
        Place(k) == Cardinality({j \in Kept : j <= k})
    IN /\ Len(out) = Cardinality(Kept)
       /\ \A k \in Kept : out[Place(k)] = in[k]

EachPriceRowOnce ==
    /\ \A i \in 1..Len(price_file) :
         Cardinality({k \in 1..Len(with_rules) : with_rules[k].price_id = i}) = 1
    /\ \A k \in 1..Len(with_rules) :
         (\A j \in 1..Len(ccy_file) : ccy_file[j].ccy_pair # with_rules[k].ccy_pair)
             => /\ with_rules[k].convert_price = "NaN"
                /\ with_rules[k].conversion_factor = NaNF

UniqueRules ==
    \A i, j \in 1..Len(ccy_file) :
        ccy_file[i].ccy_pair = ccy_file[j].ccy_pair => i = j

\* C6 as stated: for every price table and every rule table that process
\* accepts, the as-of join followed by the rule merge holds every price row
\* exactly once, rows without a rule carrying null rule fields.
C6_EveryAcceptedRuleTable ==
    rates_pc = "done" => EachPriceRowOnce

\* C6 amended: the same, for rule tables with at most one rule per ccy_pair.
C6_UniqueRulesKeepEachRowOnce ==
    rates_pc = "done" /\ UniqueRules => EachPriceRowOnce

\* two price rows merged with one rule: one row gets the rule, the other none
C6_Witness ==
    /\ rates_pc = "done"
    /\ UniqueRules
    /\ Len(price_file) = 2
    /\ \E k, l \in 1..Len(with_rules) :
         /\ with_rules[k].convert_price = "NaN"
         /\ with_rules[l].convert_price # "NaN"

\* C9: a null timestamp is unmatchable and no error: the batch completes, a
\* price row with a null timestamp is carried through with null spot fields
\* and null new_price, and no spot row with a null timestamp is matched.
C9_NullTimestampUnmatchable ==
    rates_pc # "idle" =>
        /\ rates_pc = "done"
        /\ \A i \in 1..Len(price_file) :
             to_datetime(price_file[i].timestamp) = NaT =>
                 \E k \in 1..Len(converted) :
                     /\ converted[k].price_id = i
                     /\ converted[k].spot_id = NoId
                     /\ converted[k].spot_mid_rate = NaNF
                     /\ converted[k].new_price = NaNF
        /\ \A k \in 1..Len(converted) :
             converted[k].spot_id # NoId =>
                 to_datetime(spot_file[converted[k].spot_id].timestamp) # NaT

\* C10: a price row whose pair has no conversion rule is not converted:
\* new_price is the price when the row has a spot match, null when it has none.
C10_NoRuleMeansNoConversion ==
    rates_pc = "done" =>
        \A k \in 1..Len(converted) :
            (\A j \in 1..Len(ccy_file) : ccy_file[j].ccy_pair # converted[k].ccy_pair)
                => /\ converted[k].spot_id # NoId
                        => converted[k].new_price = converted[k].price
                   /\ converted[k].spot_id = NoId
                        => converted[k].new_price = NaNF

----------------------------------------------------------------------------
(* Properties of the stdev pipeline *)

\* the rows of one security in the unfiltered result, in result order
GroupRows(sec) == SelectSeq(grouped, LAMBDA r : r.security_id = sec)

FileRows(sec) == SelectSeq(stdev_file, LAMBDA r : r.security_id = sec)

StdevOf(r, col) ==
    CASE col = "bid" -> r.bid_stdev
      [] col = "mid" -> r.mid_stdev
      [] col = "ask" -> r.ask_stdev

\* row k of g lies exactly one hour after row k - 1
HourlyStep(g, k) ==
    /\ k > 1
    /\ g[k].snap_time # NaT
    /\ g[k - 1].snap_time # NaT
    /\ g[k].snap_time - g[k - 1].snap_time = Hour

\* the 20 rows ending at row i (counted from 1) exist, hold a value of col
\* each, and are 19 hourly steps apart
FullHourlyWindow(g, col, i) ==
    /\ i >= 20
    /\ \A k \in (i - 19)..i : g[k][col] # NaN
    /\ \A k \in (i - 18)..i : HourlyStep(g, k)

\* C3: in every group, in snap_time order, f_stdev of a row is non-null if and
\* only if the row is at least the 20th, the 20 values of f ending at it are
\* all present and the 19 steps between those rows are exactly 1 hour each.
C3_StdevIffFullHourlyWindow ==
    stdev_pc = "done" =>
        \A sec \in SecSet :
            LET g == GroupRows(sec)
            IN /\ Len(g) = Len(FileRows(sec))
               /\ \A k \in 2..Len(g) : ~SnapLess(g[k], g[k - 1])
               /\ \A i \in 1..Len(g) : \A col \in Fields :
                    (StdevOf(g[i], col) # NaN) <=> FullHourlyWindow(g, col, i)

\* a row with a bid stdev whose mid stdev is withheld for a missing mid quote
C3_Witness ==
    /\ stdev_pc = "done"
    /\ \E k \in 1..Len(grouped) :
         grouped[k].bid_stdev # NaN /\ grouped[k].mid_stdev = NaN

\* C4: with add_gap_flag, gap_blocked of a row is true exactly when the 20-row
\* window ending at it is not contiguous and at least one of bid, mid, ask has
\* 20 data points in that window.
C4_GapBlockedFlagsBrokenWindows ==
    stdev_pc = "done" /\ stdev_args.add_gap_flag =>
        \A sec \in SecSet :
            LET g == GroupRows(sec)
            IN \A i \in 1..Len(g) :
                 g[i].gap_blocked <=>
                     /\ ~(i >= 20 /\ \A k \in (i - 18)..i : HourlyStep(g, k))
                     /\ \E col \in Fields :
                          i >= 20 /\ \A k \in (i - 19)..i : g[k][col] # NaN

\* C8: the stdev rows of a security are those the pipeline computes from the
\* rows of that security alone, whatever rows of other securities the file
\* holds and wherever they stand in it.
C8_GroupsIndependent ==
    stdev_pc = "done" =>
        \A sec \in SecSet :
            GroupRows(sec) = rolling_result(FileRows(sec), stdev_args.add_gap_flag)

\* a file where a row of one security stands between the rows of another,
\* which has a stdev
C8_Witness ==
    /\ stdev_pc = "done"
    /\ \E k \in 2..(Len(stdev_file) - 1) :
         /\ stdev_file[k].security_id # stdev_file[1].security_id
         /\ stdev_file[Len(stdev_file)].security_id = stdev_file[1].security_id
    /\ \E k \in 1..Len(grouped) : grouped[k].bid_stdev # NaN

\* row 15 of the file was taken late, every other row on the hour
Row15Late == Len(stdev_file) >= 15 /\ stdev_file[15].snap_time % Hour # 0

Row20HasStdev ==
    ~Row15Late /\ Len(grouped) >= 20 =>
        \A col \in Fields : StdevOf(grouped[20], col) # NaN

\* C7 as stated: with hourly rows row 20 has a stdev; with only row 15
\* perturbed, from row 20 on the rows without a stdev are rows 20..33.
C7_NullOnRows20To33 ==
    stdev_pc = "done" =>
        /\ Row20HasStdev
        /\ Row15Late =>
             \A r \in 20..Len(grouped) : \A col \in Fields :
                 (StdevOf(grouped[r], col) = NaN) <=> r \in 20..33

\* C7 amended: the rows without a stdev are rows 20..34, those whose 20-row
\* window holds row 15; row 35 and every later row has a stdev again.
C7_NullOnRows20To34 ==
    stdev_pc = "done" =>
        /\ Row20HasStdev
        /\ Row15Late =>
             \A r \in 20..Len(grouped) : \A col \in Fields :
                 (StdevOf(grouped[r], col) = NaN) <=> r \in 20..34

\* the perturbed series processed with 35 rows or more
C7_Witness ==
    /\ stdev_pc = "done"
    /\ Row15Late
    /\ Len(grouped) >= 35
    /\ grouped[34].bid_stdev = NaN
    /\ grouped[35].bid_stdev # NaN

----------------------------------------------------------------------------
(* Specifications *)

Init == RatesInit /\ StdevInit

Next ==
    \/ WritePrice
    \/ WriteSpot
    \/ WriteRule
    \/ RatesProcess
    \/ WriteHourly
    \/ WriteAfterGap
    \/ WritePerturbed
    \/ WriteMissingQuote
    \/ WriteMalformed
    \/ WriteEarlier
    \/ StdevProcess

Spec == Init /\ [][Next]_vars

\* The row-15 scenario: one security with hourly snapshots, of which only
\* row 15 may be late.
GateHourly ==
    /\ stdev_pc = "idle"
    /\ Appended(SnapRow(Main, NextSlot(Main), QuoteOf(Len(stdev_file))), 0, MaxGateRows)

GatePerturbed ==
    /\ stdev_pc = "idle"
    /\ Len(stdev_file) = 14
    /\ \E d \in Perturbations :
         Appended(SnapRow(Main, NextSlot(Main) + d, QuoteOf(Len(stdev_file))),
                  1, MaxGateRows)

GateInit == RatesInit /\ StdevInit

GateNext == GateHourly \/ GatePerturbed \/ StdevProcess

SpecGate == GateInit /\ [][GateNext]_vars

\* The rates script alone
RatesNext ==
    \/ WritePrice
    \/ WriteSpot
    \/ WriteRule
    \/ RatesProcess

SpecRates == Init /\ [][RatesNext]_vars

\* The stdev script alone
StdevNext ==
    \/ WriteHourly
    \/ WriteAfterGap
    \/ WritePerturbed
    \/ WriteMissingQuote
    \/ WriteMalformed
    \/ WriteEarlier
    \/ StdevProcess

SpecStdev == Init /\ [][StdevNext]_vars

============================================================================
